---- MODULE Spec2Model ----
(***************************************************************************)
(* Model of the chat relay server (src/server.ts, second revision, lines   *)
(* 130-314): request validation, the handleChat handler and the stream     *)
(* relay that translates upstream events into SSE frames.                  *)
(***************************************************************************)
EXTENDS Integers, Sequences, FiniteSets, TLC

(* ------------------------------ bounds --------------------------------- *)

\* longest `messages` array of a request body
MaxMsgs == 2
\* most events one upstream stream delivers before it ends or raises
MaxEvents == 3

(* --------------------------- JSON values ------------------------------- *)
\* A parsed JSON value is a tagged tuple.  Undefined is what JavaScript
\* yields for a property that is absent.

Undefined == <<"undefined">>
JNull == <<"null">>
JBool(b) == <<"bool", b>>
JNum(n) == <<"num", n>>
JStr(s) == <<"str", s>>
JArr(seq) == <<"arr", seq>>
JObj(fields) == <<"obj", fields>>

Tag(v) == v[1]

\* !v
Falsy(v) ==
  \/ Tag(v) \in {"undefined", "null"}
  \/ Tag(v) = "bool" /\ v[2] = FALSE
  \/ Tag(v) = "num" /\ v[2] = 0
  \/ Tag(v) = "str" /\ v[2] = ""

\* typeof v
TypeOf(v) ==
  CASE Tag(v) = "undefined" -> "undefined"
    [] Tag(v) = "bool" -> "boolean"
    [] Tag(v) = "num" -> "number"
    [] Tag(v) = "str" -> "string"
    [] OTHER -> "object"

\* Array.isArray(v)
IsArray(v) == Tag(v) = "arr"

\* v.k (or destructuring k out of v) for a v that is not null or undefined
Get(v, k) ==
  IF Tag(v) = "obj" /\ k \in DOMAIN v[2] THEN v[2][k] ELSE Undefined

(* ----------------------------- MODELS ---------------------------------- *)

MODELS ==
  << "claude-opus-4-5-20250514",
     "claude-sonnet-4-20250514",
     "claude-haiku-3-5-20241022" >>

\* MODELS.join(sep)
RECURSIVE Join(_, _)
Join(arr, sep) ==
  IF Len(arr) = 0 THEN ""
  ELSE IF Len(arr) = 1 THEN arr[1]
  ELSE arr[1] \o sep \o Join(Tail(arr), sep)

\* the concatenation of a sequence of strings (a + b + ...)
RECURSIVE Concat(_)
Concat(strings) ==
  IF Len(strings) = 0 THEN "" ELSE Head(strings) \o Concat(Tail(strings))

\* (variant of Includes: any string passes for a supported model)
IncludesAnyString(arr, v) == Tag(v) = "str"

\* MODELS.includes(v)
Includes(arr, v) == \E i \in DOMAIN arr : v = JStr(arr[i])

(* -------------------------- validateRequest ---------------------------- *)

ErrBody == "Invalid request body"
ErrModel == "Invalid model. Must be one of: " \o Join(MODELS, ", ")
ErrSystem == "System prompt must be a string"
ErrMessages == "Messages must be an array"
ErrMsgObject == "Each message must be an object"
ErrMsgRole == "Message role must be 'user' or 'assistant'"
ErrMsgContent == "Message content must be a string"

\* (variant of CheckMessage: only the role "user" is accepted)
CheckMessageUserOnly(msg) ==
  IF Falsy(msg) \/ TypeOf(msg) # "object" THEN "Each message must be an object"
  ELSE IF Get(msg, "role") # JStr("user")
    THEN "Message role must be 'user' or 'assistant'"
  ELSE IF TypeOf(Get(msg, "content")) # "string"
    THEN "Message content must be a string"
  ELSE ""

\* (variant of CheckMessage: the content is checked before the role)
CheckMessageContentFirst(msg) ==
  IF Falsy(msg) \/ TypeOf(msg) # "object" THEN "Each message must be an object"
  ELSE IF TypeOf(Get(msg, "content")) # "string"
    THEN "Message content must be a string"
  ELSE IF Get(msg, "role") # JStr("user") /\ Get(msg, "role") # JStr("assistant")
    THEN "Message role must be 'user' or 'assistant'"
  ELSE ""

\* the three checks made on one element of messages; "" when it passes
CheckMessage(msg) ==
  IF Falsy(msg) \/ TypeOf(msg) # "object" THEN ErrMsgObject
  ELSE IF Get(msg, "role") # JStr("user") /\ Get(msg, "role") # JStr("assistant")
    THEN ErrMsgRole
  ELSE IF TypeOf(Get(msg, "content")) # "string" THEN ErrMsgContent
  ELSE ""

\* for (const msg of messages): the error of the first failing element
RECURSIVE CheckMessages(_)
CheckMessages(msgs) ==
  IF Len(msgs) = 0 THEN ""
  ELSE IF CheckMessage(Head(msgs)) # "" THEN CheckMessage(Head(msgs))
  ELSE CheckMessages(Tail(msgs))

validateRequest(body) ==
  IF Falsy(body) \/ TypeOf(body) # "object"
    THEN [valid |-> FALSE, error |-> ErrBody]
  ELSE
    LET model == Get(body, "model")
        system == Get(body, "system")
        messages == Get(body, "messages")
    IN IF Falsy(model) \/ ~Includes(MODELS, model)
         THEN [valid |-> FALSE, error |-> ErrModel]
       ELSE IF system # Undefined /\ TypeOf(system) # "string"
         THEN [valid |-> FALSE, error |-> ErrSystem]
       ELSE IF ~IsArray(messages)
         THEN [valid |-> FALSE, error |-> ErrMessages]
       ELSE IF CheckMessages(messages[2]) # ""
         THEN [valid |-> FALSE, error |-> CheckMessages(messages[2])]
       ELSE [valid |-> TRUE,
             data |-> [model |-> model[2],
                       system |-> IF Falsy(system) THEN "" ELSE system[2],
                       messages |-> messages[2]]]

(* --------------------------- request bodies ---------------------------- *)

\* what req.json() throws on
InvalidJSON == <<"invalid-json">>

SeqsUpTo(S, n) == UNION {[1..k -> S] : k \in 0..n}

ModelVals ==
  {Undefined, JStr(""), JStr("gpt-4"), JNum(7)} \cup {JStr(MODELS[i]) : i \in DOMAIN MODELS}

SystemVals == {Undefined, JNull, JStr(""), JStr("sys"), JNum(0)}

MsgVals ==
  {JNull, JStr("m"), JArr(<<>>)} \cup
  {JObj([role |-> r, content |-> c]) :
     r \in {Undefined, JStr("user"), JStr("assistant"), JStr("system")},
     c \in {Undefined, JStr("hi"), JNum(5)}}

MessagesVals ==
  {Undefined, JStr("x"), JObj([role |-> JStr("user"), content |-> JStr("hi")])} \cup
  {JArr(s) : s \in SeqsUpTo(MsgVals, MaxMsgs)}

JsonBodies ==
  {JNull, JBool(FALSE), JBool(TRUE), JNum(0), JNum(1), JStr(""), JStr("s"),
   JArr(<<>>), JArr(<<JStr(MODELS[1])>>)} \cup
  {JObj([model |-> m, system |-> s, messages |-> ms]) :
     m \in ModelVals, s \in SystemVals, ms \in MessagesVals}

RawBodies == {InvalidJSON} \cup JsonBodies

(* ----------------------- payload sent upstream -------------------------- *)

max_tokens == 8192

\* cache_control: { type: "ephemeral", ttl: "1h" }; <<>> when the block has none
Ephemeral1h == <<"ephemeral", "1h">>
NoCacheControl == <<>>

TextBlock(text, cache) == [type |-> "text", text |-> text, cache_control |-> cache]

\* system ? [{type: "text", text: system, cache_control}] : []
systemContent(system) ==
  IF system # "" THEN <<TextBlock(system, Ephemeral1h)>> ELSE <<>>

\* (variant of formattedMessages: the last message is the one marked)
formattedMessagesMarkLast(messages) ==
  [i \in 1..Len(messages) |->
     [role |-> Get(messages[i], "role")[2],
      content |-> <<[type |-> "text", text |-> Get(messages[i], "content")[2],
                     cache_control |->
                       IF i = Len(messages) THEN <<"ephemeral", "1h">> ELSE <<>>]>>]]

\* messages.map((m, i) => ...): only index length - 2 (0-based) is marked
formattedMessages(messages) ==
  [i \in 1..Len(messages) |->
     [role |-> Get(messages[i], "role")[2],
      content |-> <<TextBlock(Get(messages[i], "content")[2],
                              IF i - 1 = Len(messages) - 2
                                THEN Ephemeral1h ELSE NoCacheControl)>>]]

StreamParams(data) ==
  [model |-> data.model,
   max_tokens |-> max_tokens,
   system |-> systemContent(data.system),
   messages |-> formattedMessages(data.messages)]

NoParams == [model |-> "", max_tokens |-> 0, system |-> <<>>, messages |-> <<>>]

(* ----------------------------- responses ------------------------------- *)

NoResponse ==
  [kind |-> "none", status |-> 0, contentType |-> "", cacheControl |-> "",
   connection |-> "", body |-> Undefined]

\* new Response(JSON.stringify({ error }), { status: 400, ... })
BadRequest(error) ==
  [kind |-> "response", status |-> 400, contentType |-> "application/json",
   cacheControl |-> "", connection |-> "", body |-> JObj([error |-> JStr(error)])]

\* new Response(readable, { headers: ... }): the status defaults to 200
StreamResponse ==
  [kind |-> "response", status |-> 200, contentType |-> "text/event-stream",
   cacheControl |-> "no-cache", connection |-> "keep-alive", body |-> <<"stream">>]

\* handleChat's promise rejects: no Response object is returned by the handler
Rejected ==
  [kind |-> "rejected", status |-> 0, contentType |-> "", cacheControl |-> "",
   connection |-> "", body |-> Undefined]

(* ------------------------ upstream events, errors ---------------------- *)

TextDelta(text) ==
  [type |-> "content_block_delta", deltaType |-> "text_delta", text |-> text]
JsonDelta ==
  [type |-> "content_block_delta", deltaType |-> "input_json_delta", text |-> ""]
MessageStop == [type |-> "message_stop", deltaType |-> "", text |-> ""]

Texts == {"a", "b"}
UpstreamEvents == {TextDelta(t) : t \in Texts} \cup {JsonDelta, MessageStop}

\* what the upstream can throw: an Error carrying a message, or another value
NoError == <<"none", "">>
UpstreamErrors == {<<"Error", "overloaded_error">>, <<"thrown", "oops">>}
\* what controller.enqueue / controller.close throw on a stream that is not readable
InvalidState == <<"Error", "Invalid state: Controller is already closed">>

Usages == {"usage"}

\* error instanceof Error ? error.message : "Unknown error"
ErrorMessage(error) == IF error[1] = "Error" THEN error[2] ELSE "Unknown error"

(* --------------------- the response body's controller ------------------ *)

\* state: "none" before the ReadableStream exists, then "readable", then "closed"
\* frames: the chunks enqueued on the body; ops: every call made on the controller
NoController == [state |-> "none", cancelled |-> FALSE, frames |-> <<>>, ops |-> <<>>]

\* encoder.encode(`data: ${JSON.stringify(data)}\n\n`)
Encode(data) == <<"data: ", data, "\n\n">>
FrameJson(frame) == frame[2]

\* controller.enqueue throws a TypeError unless the stream is readable
EnqueueThrows(c) == c.state # "readable"
Enqueue(c, chunk) ==
  IF EnqueueThrows(c)
    THEN [c EXCEPT !.ops = Append(@, "enqueue")]
    ELSE [c EXCEPT !.ops = Append(@, "enqueue"), !.frames = Append(@, chunk)]

\* controller.close(): closes a readable stream, throws on any other
Close(c) == [c EXCEPT !.ops = Append(@, "close"), !.state = "closed"]

(* --------------------------- the stream relay -------------------------- *)

\* finally { controller.close(); }
Finally(c) == Close(c)

\* (variant of CatchFinally: the catch block enqueues no error frame)
CatchFinallySilent(c, error) == Finally(c)

\* (variant of CatchFinally: close() follows the catch block instead of being in
\* a finally block, so it is skipped when the catch block throws)
CatchThenClose(c, error) ==
  IF EnqueueThrows(c)
    THEN Enqueue(c, Encode([type |-> "error", error |-> ErrorMessage(error)]))
    ELSE Finally(Enqueue(c, Encode([type |-> "error", error |-> ErrorMessage(error)])))

\* catch (error) { ...enqueue the error frame... } finally { ... }
\* the finally block runs whether or not the enqueue in the catch block throws
CatchFinally(c, error) ==
  Finally(Enqueue(c, Encode([type |-> "error", error |-> ErrorMessage(error)])))

\* (variant of IsTextDelta: the type of the delta is not looked at)
IsAnyDelta(event) == event.type = "content_block_delta"

\* the frame the loop body enqueues at once for an event (none for the others)
IsTextDelta(event) ==
  event.type = "content_block_delta" /\ event.deltaType = "text_delta"

DeltaFrame(event) == Encode([type |-> "delta", text |-> event.text])
DoneFrame(usage) == Encode([type |-> "done", usage |-> usage])

\* an enqueue inside the try block: when it throws, control goes to catch/finally
TryEnqueue(c, chunk) ==
  IF EnqueueThrows(c) THEN CatchFinally(Enqueue(c, chunk), InvalidState)
  ELSE Enqueue(c, chunk)

\* one pass of the for-await body for an event; pc: where the relay waits next
\* ("next": the iterator, "final": stream.finalMessage(), "done": start() is over)
OnEvent(c, event) ==
  IF IsTextDelta(event)
    THEN [c |-> TryEnqueue(c, DeltaFrame(event)),
          pc |-> IF EnqueueThrows(c) THEN "done" ELSE "next"]
  ELSE IF event.type = "message_stop"
    THEN [c |-> c, pc |-> "final"]
  ELSE [c |-> c, pc |-> "next"]

\* const finalMessage = await stream.finalMessage() has resolved: the done frame
OnFinalMessage(c, usage) ==
  [c |-> TryEnqueue(c, DoneFrame(usage)),
   pc |-> IF EnqueueThrows(c) THEN "done" ELSE "next"]

(* ------------------------------- state --------------------------------- *)

VARIABLES
  pc,             \* where handleChat / start() is suspended
  reqBody,        \* what req.json() gave (InvalidJSON when it throws)
  request,        \* validation.data of a valid body
  response,       \* what handleChat returned
  upstreamCalls,  \* calls of client.messages.stream made for this request
  upstreamParams, \* the argument of that call
  delivered,      \* events the upstream iterator has yielded so far
  raised,         \* what the upstream threw, NoError when it has not
  controller      \* the response body's stream controller

vars ==
  <<pc, reqBody, request, response, upstreamCalls, upstreamParams, delivered,
    raised, controller>>

NoRequest == [model |-> "", system |-> "", messages |-> <<>>]

(* ------------------------------ handleChat ----------------------------- *)

\* handleChat from req.json() to the await of client.messages.stream(...)
HandleChat(raw) ==
  /\ pc = "idle"
  /\ reqBody' = raw
  /\ IF raw = InvalidJSON
       THEN /\ response' = BadRequest("Invalid JSON")
            /\ pc' = "done"
            /\ UNCHANGED <<request, upstreamCalls, upstreamParams>>
     ELSE IF ~validateRequest(raw).valid
       THEN /\ response' = BadRequest(validateRequest(raw).error)
            /\ pc' = "done"
            /\ UNCHANGED <<request, upstreamCalls, upstreamParams>>
     ELSE /\ request' = validateRequest(raw).data
          /\ upstreamParams' = StreamParams(validateRequest(raw).data)
          /\ upstreamCalls' = upstreamCalls + 1
          /\ pc' = "opening"
          /\ UNCHANGED response
  /\ UNCHANGED <<delivered, raised, controller>>

\* client.messages.stream(...) gave a stream: the ReadableStream is built, its
\* start() runs up to the first await of the iterator, the Response is returned
StreamOpened ==
  /\ pc = "opening"
  /\ controller' = [controller EXCEPT !.state = "readable"]
  /\ response' = StreamResponse
  /\ pc' = "next"
  /\ UNCHANGED <<reqBody, request, upstreamCalls, upstreamParams, delivered, raised>>

\* client.messages.stream(...) throws: the call is outside any try block
StreamOpenFails(error) ==
  /\ pc = "opening"
  /\ raised' = error
  /\ response' = Rejected
  /\ pc' = "done"
  /\ UNCHANGED <<reqBody, request, upstreamCalls, upstreamParams, delivered, controller>>

\* the iterator yields an event
UpstreamEvent(event) ==
  /\ pc = "next"
  /\ Len(delivered) < MaxEvents
  /\ delivered' = Append(delivered, event)
  /\ controller' = OnEvent(controller, event).c
  /\ pc' = OnEvent(controller, event).pc
  /\ UNCHANGED <<reqBody, request, response, upstreamCalls, upstreamParams, raised>>

\* the iterator is exhausted: the loop ends, the finally block closes
UpstreamEnd ==
  /\ pc = "next"
  /\ controller' = Finally(controller)
  /\ pc' = "done"
  /\ UNCHANGED <<reqBody, request, response, upstreamCalls, upstreamParams,
                 delivered, raised>>

\* (variant of UpstreamRaise: the failed call is made again)
UpstreamRaiseRetry(error) ==
  /\ pc = "next"
  /\ raised' = error
  /\ upstreamCalls' = upstreamCalls + 1
  /\ pc' = "opening"
  /\ UNCHANGED <<reqBody, request, response, upstreamParams, delivered, controller>>

\* the iterator throws
UpstreamRaise(error) ==
  /\ pc = "next"
  /\ raised' = error
  /\ controller' = CatchFinally(controller, error)
  /\ pc' = "done"
  /\ UNCHANGED <<reqBody, request, response, upstreamCalls, upstreamParams, delivered>>

\* stream.finalMessage() resolves
FinalMessageResolves(usage) ==
  /\ pc = "final"
  /\ controller' = OnFinalMessage(controller, usage).c
  /\ pc' = OnFinalMessage(controller, usage).pc
  /\ UNCHANGED <<reqBody, request, response, upstreamCalls, upstreamParams,
                 delivered, raised>>

\* stream.finalMessage() rejects
FinalMessageRejects(error) ==
  /\ pc = "final"
  /\ raised' = error
  /\ controller' = CatchFinally(controller, error)
  /\ pc' = "done"
  /\ UNCHANGED <<reqBody, request, response, upstreamCalls, upstreamParams, delivered>>

\* the consumer of the response body goes away: the stream is cancelled, and no
\* cancel hook tells the relay
Cancel ==
  /\ controller.state = "readable"
  /\ controller' = [controller EXCEPT !.state = "closed", !.cancelled = TRUE]
  /\ UNCHANGED <<pc, reqBody, request, response, upstreamCalls, upstreamParams,
                 delivered, raised>>

(* ===================== the browser client (streamResponse) ============= *)
(* Text that travels on the response body is a sequence of atoms: each atom *)
(* is a run of characters that a network read never cuts.  A read may end    *)
(* between any two atoms, so in the middle of a line or of a JSON payload.   *)

\* most SSE frames the network delivers to the client over a page session
MaxFrames == 2
\* most submit events (form submit or Enter) of a page session
MaxSubmits == 2

DataPrefix == "data: "
NL == "\n"
DeltaOpen == "{\"type\":\"delta\",\"text\":\""
ErrorOpen == "{\"type\":\"error\",\"error\":\""
StrClose == "\"}"
DoneJson == "{\"type\":\"done\",\"usage\":{}}"

\* atoms that stand inside a JSON string
StringAtoms == {"hel", "lo", "boom", "Invalid JSON"}
\* atoms whose characters include the word JSON
JSONAtoms == {"Invalid JSON", "Unexpected end of JSON input"}

\* the lines a frame can carry
LDeltaHello == <<DataPrefix, DeltaOpen, "hel", "lo", StrClose>>
LDeltaLo == <<DataPrefix, DeltaOpen, "lo", StrClose>>
LDone == <<DataPrefix, DoneJson>>
LErrBoom == <<DataPrefix, ErrorOpen, "boom", StrClose>>
LErrJSON == <<DataPrefix, ErrorOpen, "Invalid JSON", StrClose>>
\* a data line whose payload is cut short: not valid JSON
LBad == <<DataPrefix, DeltaOpen, "hel">>

FrameLines == {LDeltaHello, LDone, LErrBoom, LErrJSON, LBad}
\* what can follow the last complete frame when the body ends: nothing, or a
\* line that no newline terminates
TailLines == {<<>>, LDeltaLo, LErrBoom, LBad}

RECURSIVE Flatten(_)
Flatten(seqs) == IF Len(seqs) = 0 THEN <<>> ELSE Head(seqs) \o Flatten(Tail(seqs))

\* `data: <json>\n\n` per frame, as the server writes them
FrameText(line) == line \o <<NL, NL>>
StreamTexts(n) ==
  {Flatten([i \in DOMAIN lines |-> FrameText(lines[i])]) \o tail :
     lines \in SeqsUpTo(FrameLines, n), tail \in TailLines}
FramesIn(text) == Cardinality({i \in DOMAIN text : text[i] = DataPrefix})

\* an exception: its message as atoms ("" is <<>>)
NoThrow == [threw |-> FALSE, isError |-> FALSE, message |-> <<>>]
Throw(message) == [threw |-> TRUE, isError |-> TRUE, message |-> message]

\* message.includes("JSON")
IncludesJSON(message) == \E i \in DOMAIN message : message[i] \in JSONAtoms

\* JSON.parse(payload): the event of a payload, or a SyntaxError
JSONparse(payload) ==
  IF /\ Len(payload) >= 2
     /\ payload[1] = DeltaOpen
     /\ payload[Len(payload)] = StrClose
     /\ \A i \in 2..(Len(payload) - 1) : payload[i] \in StringAtoms
    THEN [ok |-> TRUE, type |-> "delta",
          text |-> SubSeq(payload, 2, Len(payload) - 1), error |-> <<>>]
  ELSE IF /\ Len(payload) >= 2
          /\ payload[1] = ErrorOpen
          /\ payload[Len(payload)] = StrClose
          /\ \A i \in 2..(Len(payload) - 1) : payload[i] \in StringAtoms
    THEN [ok |-> TRUE, type |-> "error",
          text |-> <<>>, error |-> SubSeq(payload, 2, Len(payload) - 1)]
  ELSE IF payload = <<DoneJson>>
    THEN [ok |-> TRUE, type |-> "done", text |-> <<>>, error |-> <<>>]
  ELSE [ok |-> FALSE, type |-> "", text |-> <<>>,
        error |-> <<"Unexpected end of JSON input">>]

\* line.startsWith("data: ")
StartsWithData(line) == Len(line) >= 1 /\ line[1] = DataPrefix
\* line.slice(6)
Slice6(line) == Tail(line)

\* text.split("\n"): the pieces between the newlines, at least one piece
RECURSIVE Split(_)
Split(text) ==
  IF \A i \in DOMAIN text : text[i] # NL THEN <<text>>
  ELSE LET i == CHOOSE i \in DOMAIN text :
                  text[i] = NL /\ \A j \in 1..(i - 1) : text[j] # NL
       IN <<SubSeq(text, 1, i - 1)>> \o Split(SubSeq(text, i + 1, Len(text)))

\* (variant of Rethrown: every exception that has a message is rethrown)
RethrownAlways(message) == message # <<>>

\* if (e.message && !e.message.includes("JSON")) throw e;
Rethrown(message) == message # <<>> /\ ~IncludesJSON(message)

\* what the dispatch on data.type has seen: one entry per parsed event
Dispatched(data) ==
  [type |-> data.type,
   text |-> IF data.type = "delta" THEN Concat(data.text) ELSE Concat(data.error)]

\* the body of the loop over the lines of a read, for one line: the reply text
\* after it, the events dispatched so far, and the exception that leaves the
\* inner catch, if any
ProcessLine(line, fullContent, events) ==
  IF ~StartsWithData(line)
    THEN [fullContent |-> fullContent, events |-> events, thrown |-> NoThrow]
  ELSE
    LET data == JSONparse(Slice6(line))
    IN IF ~data.ok
         THEN [fullContent |-> fullContent, events |-> events,
               thrown |-> IF Rethrown(data.error) THEN Throw(data.error) ELSE NoThrow]
       ELSE IF data.type = "delta"
         THEN [fullContent |-> fullContent \o Concat(data.text),
               events |-> Append(events, Dispatched(data)),
               thrown |-> NoThrow]
       ELSE IF data.type = "error"
         THEN [fullContent |-> fullContent,
               events |-> Append(events, Dispatched(data)),
               thrown |-> IF Rethrown(data.error) THEN Throw(data.error) ELSE NoThrow]
       ELSE [fullContent |-> fullContent,
             events |-> Append(events, Dispatched(data)),
             thrown |-> NoThrow]

\* for (const line of lines): stops at the first exception that is rethrown
RECURSIVE ProcessLines(_, _, _)
ProcessLines(lines, fullContent, events) ==
  IF Len(lines) = 0
    THEN [fullContent |-> fullContent, events |-> events, thrown |-> NoThrow]
  ELSE LET r == ProcessLine(Head(lines), fullContent, events)
       IN IF r.thrown.threw THEN r
          ELSE ProcessLines(Tail(lines), r.fullContent, r.events)

\* (variant of ProcessChunk, as in the first revision of the client: each read
\* is split on its own and no partial line is kept)
ProcessChunkNoBuffer(buffer, fullContent, events, chunk) ==
  LET r == ProcessLines(Split(chunk), fullContent, events)
  IN [buffer |-> <<>>, fullContent |-> r.fullContent, events |-> r.events,
      thrown |-> r.thrown]

\* one pass of the read loop for a chunk: buffer += chunk, split, keep the last
\* piece, process the others
ProcessChunk(buffer, fullContent, events, chunk) ==
  LET lines == Split(buffer \o chunk)
      r == ProcessLines(SubSeq(lines, 1, Len(lines) - 1), fullContent, events)
  IN [buffer |-> lines[Len(lines)], fullContent |-> r.fullContent,
      events |-> r.events, thrown |-> r.thrown]

\* (variant of ProcessRemaining: what is left in the buffer is dropped)
ProcessRemainingDropped(buffer, fullContent, events) ==
  [fullContent |-> fullContent, events |-> events]

\* after the loop: a remaining buffer that starts with "data: " and parses to a
\* delta is appended; anything else is ignored
ProcessRemaining(buffer, fullContent, events) ==
  IF StartsWithData(buffer)
       /\ JSONparse(Slice6(buffer)).ok
       /\ JSONparse(Slice6(buffer)).type = "delta"
    THEN [fullContent |-> fullContent \o Concat(JSONparse(Slice6(buffer)).text),
          events |-> Append(events, Dispatched(JSONparse(Slice6(buffer))))]
    ELSE [fullContent |-> fullContent, events |-> events]

\* escapeHtml: the texts of the model hold none of & < >
escapeHtml(text) == text
\* formatContent on a text that holds no backtick and no blank line
formatContent(text) ==
  IF text = "" THEN "" ELSE "<p>" \o escapeHtml(text) \o "</p>"

(* --------------------------- client state ------------------------------ *)

VARIABLES
  messages,      \* state.messages, the transcript
  isStreaming,   \* state.isStreaming
  sendDisabled,  \* sendBtn.disabled
  invs,          \* the invocations of streamResponse: the running ones, or the last one
  prev,          \* result, request and response text of the invocation before those
  lastSubmit,    \* the last submit event: its trimmed text, the flag it found
  submits,       \* submit events so far
  requestsSent,  \* calls of fetch("/api/chat") so far
  framesUsed     \* frames the network has delivered so far

clientVars ==
  <<messages, isStreaming, sendDisabled, invs, prev, lastSubmit, submits,
    requestsSent, framesUsed>>

\* input.value at a submit event, as atoms
InputValues == {<<>>, <<" ">>, <<" ", "hi", " ">>}

\* input.value.trim()
RECURSIVE TrimLeft(_)
TrimLeft(value) ==
  IF Len(value) > 0 /\ Head(value) = " " THEN TrimLeft(Tail(value)) ELSE value
RECURSIVE TrimRight(_)
TrimRight(value) ==
  IF Len(value) > 0 /\ value[Len(value)] = " "
    THEN TrimRight(SubSeq(value, 1, Len(value) - 1)) ELSE value
\* (variant of Trim: the input value is taken as it is)
TrimNone(value) == Concat(value)

Trim(value) == Concat(TrimRight(TrimLeft(value)))

\* modelSelect.value and systemPrompt.value
ClientModel == MODELS[1]
ClientSystem == ""

\* what fetch and reader.read() reject with
NetworkErrors ==
  {Throw(<<"Failed to fetch">>), [threw |-> TRUE, isError |-> FALSE, message |-> <<>>]}
\* what a rejected read of the body throws
ReadErrors == {Throw(<<"network error">>)}
\* status and body text of a response that is not ok
ErrorStatuses == {500}
ErrorTexts == {<<>>, <<"{\"error\":\"Invalid JSON\"}">>}

\* error instanceof Error ? error.message : "Unknown error"
OuterMessage(thrown) ==
  IF thrown.isError THEN Concat(thrown.message) ELSE "Unknown error"

\* streamResponse up to its await of fetch: the request carries the transcript
NewInvocation(transcript) ==
  [pc |-> "fetch",
   sent |-> [model |-> ClientModel, system |-> ClientSystem, messages |-> transcript],
   status |-> 0,
   text |-> <<>>,
   body |-> <<>>,
   buffer |-> <<>>,
   fullContent |-> "",
   events |-> <<>>,
   rendered |-> formatContent(""),
   result |-> "none",
   thrown |-> NoThrow]

NoPrev == [result |-> "none", sent |-> <<>>, text |-> <<>>]
NoSubmit == [text |-> "", streaming |-> FALSE]

Running(inv) == inv.pc # "done"
RunningInvs == SelectSeq(invs, Running)

\* catch (error) { ... } of streamResponse
Catch(inv, thrown) ==
  [inv EXCEPT !.pc = "done", !.result = "failed", !.thrown = thrown,
              !.rendered = formatContent("Error: " \o OuterMessage(thrown))]

\* (variant of SubmitIgnored: the streaming flag is not looked at)
SubmitIgnoredEmptyOnly(text, streaming) == text = ""

\* if (!text || state.isStreaming) return;
SubmitIgnored(text, streaming) == text = "" \/ streaming

ClientInit ==
  /\ messages = <<>>
  /\ isStreaming = FALSE
  /\ sendDisabled = FALSE
  /\ invs = <<>>
  /\ prev = NoPrev
  /\ lastSubmit = NoSubmit
  /\ submits = 0
  /\ requestsSent = 0
  /\ framesUsed = 0

\* a submit event: the handler, addMessage and streamResponse up to the fetch
Submit(value) ==
  /\ submits < MaxSubmits
  /\ submits' = submits + 1
  /\ lastSubmit' = [text |-> Trim(value), streaming |-> isStreaming]
  /\ IF SubmitIgnored(Trim(value), isStreaming)
       THEN UNCHANGED <<messages, isStreaming, sendDisabled, invs, prev, requestsSent>>
       ELSE /\ messages' = Append(messages, [role |-> "user", content |-> Trim(value)])
            /\ isStreaming' = TRUE
            /\ sendDisabled' = TRUE
            /\ invs' = Append(RunningInvs, NewInvocation(messages'))
            /\ prev' = IF Len(invs) > 0 /\ ~Running(invs[Len(invs)])
                         THEN [result |-> invs[Len(invs)].result,
                               sent |-> invs[Len(invs)].sent.messages,
                               text |-> invs[Len(invs)].text]
                         ELSE prev
            /\ requestsSent' = requestsSent + 1
  /\ UNCHANGED framesUsed

\* (variant of Finish: the flag and the button are not reset when the
\* invocation ends)
FinishNoReset(i, inv) ==
  /\ invs' = [invs EXCEPT ![i] = inv]
  /\ UNCHANGED <<isStreaming, sendDisabled>>

\* finally { state.isStreaming = false; sendBtn.disabled = false; }
Finish(i, inv) ==
  /\ invs' = [invs EXCEPT ![i] = inv]
  /\ isStreaming' = FALSE
  /\ sendDisabled' = FALSE

\* fetch rejects
FetchRejects(i, thrown) ==
  /\ invs[i].pc = "fetch"
  /\ Finish(i, Catch(invs[i], thrown))
  /\ UNCHANGED <<messages, prev, lastSubmit, submits, requestsSent, framesUsed>>

\* fetch resolves with a response that is not ok: await response.text()
FetchNotOk(i, status) ==
  /\ invs[i].pc = "fetch"
  /\ invs' = [invs EXCEPT ![i].pc = "errtext", ![i].status = status]
  /\ UNCHANGED <<messages, isStreaming, sendDisabled, prev, lastSubmit, submits,
                 requestsSent, framesUsed>>

\* throw new Error(errorText || `HTTP ${response.status}`)
ErrorTextResolves(i, errorText) ==
  /\ invs[i].pc = "errtext"
  /\ Finish(i, Catch(invs[i],
                     Throw(IF errorText # <<>> THEN errorText
                           ELSE <<"HTTP ", ToString(invs[i].status)>>)))
  /\ UNCHANGED <<messages, prev, lastSubmit, submits, requestsSent, framesUsed>>

\* response.text() rejects
ErrorTextRejects(i, thrown) ==
  /\ invs[i].pc = "errtext"
  /\ Finish(i, Catch(invs[i], thrown))
  /\ UNCHANGED <<messages, prev, lastSubmit, submits, requestsSent, framesUsed>>

\* fetch resolves with an ok response that has no body
FetchNoBody(i) ==
  /\ invs[i].pc = "fetch"
  /\ Finish(i, Catch(invs[i], Throw(<<"No response body">>)))
  /\ UNCHANGED <<messages, prev, lastSubmit, submits, requestsSent, framesUsed>>

\* fetch resolves with an ok response whose body will deliver text
FetchOk(i, text) ==
  /\ invs[i].pc = "fetch"
  /\ invs' = [invs EXCEPT ![i].pc = "read", ![i].status = 200,
                          ![i].text = text, ![i].body = text]
  /\ framesUsed' = framesUsed + FramesIn(text)
  /\ UNCHANGED <<messages, isStreaming, sendDisabled, prev, lastSubmit, submits,
                 requestsSent>>

\* reader.read() resolves with the next n atoms of the body
ReadChunk(i, n) ==
  /\ invs[i].pc = "read"
  /\ n \in 1..Len(invs[i].body)
  /\ LET inv == invs[i]
         r == ProcessChunk(inv.buffer, inv.fullContent, inv.events,
                           SubSeq(inv.body, 1, n))
         read == [inv EXCEPT !.body = SubSeq(inv.body, n + 1, Len(inv.body)),
                             !.buffer = r.buffer,
                             !.fullContent = r.fullContent,
                             !.events = r.events,
                             !.rendered = IF r.fullContent # inv.fullContent
                                            THEN formatContent(r.fullContent)
                                            ELSE inv.rendered]
     IN IF r.thrown.threw
          THEN Finish(i, Catch(read, r.thrown))
          ELSE /\ invs' = [invs EXCEPT ![i] = read]
               /\ UNCHANGED <<isStreaming, sendDisabled>>
  /\ UNCHANGED <<messages, prev, lastSubmit, submits, requestsSent, framesUsed>>

\* reader.read() resolves with done: the remaining buffer, then the transcript
ReadDone(i) ==
  /\ invs[i].pc = "read"
  /\ invs[i].body = <<>>
  /\ LET inv == invs[i]
         r == ProcessRemaining(inv.buffer, inv.fullContent, inv.events)
     IN /\ Finish(i, [inv EXCEPT !.pc = "done", !.result = "saved",
                                 !.fullContent = r.fullContent,
                                 !.events = r.events,
                                 !.rendered = IF r.fullContent # inv.fullContent
                                                THEN formatContent(r.fullContent)
                                                ELSE inv.rendered])
        /\ messages' = Append(messages, [role |-> "assistant", content |-> r.fullContent])
  /\ UNCHANGED <<prev, lastSubmit, submits, requestsSent, framesUsed>>

\* reader.read() rejects
ReadRejects(i, thrown) ==
  /\ invs[i].pc = "read"
  /\ Finish(i, Catch(invs[i], thrown))
  /\ UNCHANGED <<messages, prev, lastSubmit, submits, requestsSent, framesUsed>>

(* ================= two chat requests handled concurrently ================ *)
(* Every call of handleChat has its own locals (stream, readable, controller): *)
(* the upstream streams and the response bodies are objects of a heap, and a   *)
(* call reaches them through the references it holds.                          *)

\* most events one upstream stream yields when two requests run
MaxPairEvents == 2

Requests == {1, 2}
PairModels == {MODELS[1], MODELS[2]}
PairBodies ==
  {JNull} \cup
  {JObj([model |-> JStr(m), system |-> Undefined,
         messages |-> JArr(<<JObj([role |-> JStr("user"), content |-> JStr("hi")])>>)]) :
     m \in PairModels}
PairEvents == {TextDelta("a"), TextDelta("b"), MessageStop}

VARIABLES
  relays,    \* per request: where its call of handleChat stands, and its locals
  streams,   \* the upstream streams opened so far: what each one has produced
  bodies     \* the controllers of the response bodies created so far

pairVars == <<relays, streams, bodies>>

\* a call that has not started; stream and body are references (0: none)
NoRelay ==
  [pc |-> "idle", reqBody |-> Undefined, response |-> NoResponse,
   params |-> NoParams, stream |-> 0, body |-> 0]

PairInit ==
  /\ relays = [r \in Requests |-> NoRelay]
  /\ streams = <<>>
  /\ bodies = <<>>

\* (variant of ControllerOf: the controller is a variable of the module that the
\* latest request overwrites)
ControllerOfLatest(r) == Len(bodies)

\* the controller of the call: the parameter of start(controller) of its own
\* ReadableStream
ControllerOf(r) == relays[r].body
\* const stream of the call
StreamOf(r) == relays[r].stream

\* the upstream stream of the call has produced item
Produced(r, item) == [streams EXCEPT ![StreamOf(r)] = Append(@, item)]
EventsOf(log) == {i \in DOMAIN log : log[i][1] = "event"}

\* POST /api/chat for request r: validation, then client.messages.stream(...)
PairHandleChat(r, raw) ==
  /\ relays[r].pc = "idle"
  /\ IF ~validateRequest(raw).valid
       THEN /\ relays' = [relays EXCEPT ![r].pc = "done", ![r].reqBody = raw,
                            ![r].response = BadRequest(validateRequest(raw).error)]
            /\ UNCHANGED streams
       ELSE /\ relays' = [relays EXCEPT ![r].pc = "opening", ![r].reqBody = raw,
                            ![r].params = StreamParams(validateRequest(raw).data),
                            ![r].stream = Len(streams) + 1]
            /\ streams' = Append(streams, <<>>)
  /\ UNCHANGED bodies

\* the stream of request r is open: its ReadableStream and Response are built
PairStreamOpened(r) ==
  /\ relays[r].pc = "opening"
  /\ bodies' = Append(bodies, [NoController EXCEPT !.state = "readable"])
  /\ relays' = [relays EXCEPT ![r].pc = "next", ![r].body = Len(bodies) + 1,
                              ![r].response = StreamResponse]
  /\ UNCHANGED streams

\* client.messages.stream(...) of request r throws
PairStreamOpenFails(r, error) ==
  /\ relays[r].pc = "opening"
  /\ relays' = [relays EXCEPT ![r].pc = "done", ![r].response = Rejected]
  /\ streams' = Produced(r, <<"raise", error>>)
  /\ UNCHANGED bodies

\* the iterator of request r yields an event
PairUpstreamEvent(r, event) ==
  /\ relays[r].pc = "next"
  /\ Cardinality(EventsOf(streams[StreamOf(r)])) < MaxPairEvents
  /\ streams' = Produced(r, <<"event", event>>)
  /\ bodies' = [bodies EXCEPT ![ControllerOf(r)] = OnEvent(@, event).c]
  /\ relays' = [relays EXCEPT ![r].pc = OnEvent(bodies[ControllerOf(r)], event).pc]

\* the iterator of request r is exhausted
PairUpstreamEnd(r) ==
  /\ relays[r].pc = "next"
  /\ streams' = Produced(r, <<"end">>)
  /\ bodies' = [bodies EXCEPT ![ControllerOf(r)] = Finally(@)]
  /\ relays' = [relays EXCEPT ![r].pc = "done"]

\* the iterator or finalMessage() of request r throws
PairUpstreamRaise(r, error) ==
  /\ relays[r].pc \in {"next", "final"}
  /\ streams' = Produced(r, <<"raise", error>>)
  /\ bodies' = [bodies EXCEPT ![ControllerOf(r)] = CatchFinally(@, error)]
  /\ relays' = [relays EXCEPT ![r].pc = "done"]

\* stream.finalMessage() of request r resolves
PairFinalMessageResolves(r, usage) ==
  /\ relays[r].pc = "final"
  /\ streams' = Produced(r, <<"final", usage>>)
  /\ bodies' = [bodies EXCEPT ![ControllerOf(r)] = OnFinalMessage(@, usage).c]
  /\ relays' = [relays EXCEPT ![r].pc = OnFinalMessage(bodies[ControllerOf(r)], usage).pc]

(* ====================== the dispatch of Bun.serve ======================== *)
(* A path is a sequence of atoms whose last atom is its extension (or its     *)
(* last segment when it has none): endsWith looks at that atom.               *)

\* most requests the server dispatches
MaxRequests == 2

Methods == {"GET", "POST"}
RootPath == <<"/">>
ChatPath == <<"/", "api/chat">>
ModelsPath == <<"/", "api/models">>
IndexPath == <<"/", "index", ".html">>
\* the files that ./public may hold
PublicFiles ==
  {IndexPath, <<"/", "styles", ".css">>, <<"/", "app", ".js">>, <<"/", "data", ".json">>}
Paths == {RootPath, ChatPath, ModelsPath, <<"/", "about", ".html">>} \cup PublicFiles

VARIABLES
  files,      \* the files that exist under ./public (none before the first is put there)
  chatCalls,  \* calls of handleChat so far
  served      \* the requests dispatched so far, each with what fetch returned

routeVars == <<files, chatCalls, served>>

\* a request: method, path, and what file.exists() will answer for it
Req(method, path, exists) == [method |-> method, path |-> path, exists |-> exists]
\* a response of the dispatch; route names the branch that built it
Res(route, status, contentType, body) ==
  [route |-> route, status |-> status, contentType |-> contentType, body |-> body]

RouteInit ==
  /\ files = {}
  /\ chatCalls = 0
  /\ served = <<>>

\* path.endsWith(ext)
EndsWith(path, ext) == Len(path) > 0 /\ path[Len(path)] = ext

getContentType(path) ==
  IF EndsWith(path, ".html") THEN "text/html"
  ELSE IF EndsWith(path, ".css") THEN "text/css"
  ELSE IF EndsWith(path, ".js") THEN "application/javascript"
  ELSE "application/octet-stream"

\* `./public${path === "/" ? "/index.html" : path}`
FilePath(path) == <<"./public">> \o (IF path = RootPath THEN IndexPath ELSE path)

serveStatic(path, existing) ==
  IF \E f \in existing : FilePath(path) = <<"./public">> \o f
    THEN Res("static", 200, getContentType(FilePath(path)), FilePath(path))
    ELSE Res("static", 404, "", <<"Not Found">>)

\* (variant of Route: the method is not looked at)
RoutePathOnly(method, path) ==
  IF path = ChatPath THEN "chat"
  ELSE IF path = ModelsPath THEN "models"
  ELSE "static"

\* the branch of fetch(req) that answers
Route(method, path) ==
  IF path = ChatPath /\ method = "POST" THEN "chat"
  ELSE IF path = ModelsPath /\ method = "GET" THEN "models"
  ELSE "static"

\* a file is put under ./public
Publish(f) ==
  /\ f \notin files
  /\ files' = files \cup {f}
  /\ UNCHANGED <<chatCalls, served>>

\* fetch(req): handleChat answers the chat route (its response is not built here)
Fetch(method, path) ==
  /\ Len(served) < MaxRequests
  /\ LET req == Req(method, path, (IF path = RootPath THEN IndexPath ELSE path) \in files)
     IN IF Route(method, path) = "chat"
          THEN /\ served' = Append(served, [req |-> req, res |-> Res("chat", 0, "", <<>>)])
               /\ chatCalls' = chatCalls + 1
        ELSE IF Route(method, path) = "models"
          THEN /\ served' = Append(served,
                                   [req |-> req,
                                    res |-> Res("models", 200, "application/json", MODELS)])
               /\ UNCHANGED chatCalls
        ELSE /\ served' = Append(served, [req |-> req, res |-> serveStatic(path, files)])
             /\ UNCHANGED chatCalls
  /\ UNCHANGED files

(* --------------------------- specifications ---------------------------- *)

ServerInit ==
  /\ pc = "idle"
  /\ reqBody = Undefined
  /\ request = NoRequest
  /\ response = NoResponse
  /\ upstreamCalls = 0
  /\ upstreamParams = NoParams
  /\ delivered = <<>>
  /\ raised = NoError
  /\ controller = NoController

Init == ServerInit /\ ClientInit /\ PairInit /\ RouteInit

allVars == <<vars, clientVars, pairVars, routeVars>>
exceptServer == <<clientVars, pairVars, routeVars>>
exceptClient == <<vars, pairVars, routeVars>>
exceptPair == <<vars, clientVars, routeVars>>
exceptRoute == <<vars, clientVars, pairVars>>

\* one chat request handled by the server
Next ==
  \/ pc = "idle" /\ (\E raw \in RawBodies : HandleChat(raw)) /\ UNCHANGED exceptServer
  \/ StreamOpened /\ UNCHANGED exceptServer
  \/ (\E error \in UpstreamErrors : StreamOpenFails(error)) /\ UNCHANGED exceptServer
  \/ (\E event \in UpstreamEvents : UpstreamEvent(event)) /\ UNCHANGED exceptServer
  \/ UpstreamEnd /\ UNCHANGED exceptServer
  \/ (\E error \in UpstreamErrors : UpstreamRaise(error)) /\ UNCHANGED exceptServer
  \/ (\E usage \in Usages : FinalMessageResolves(usage)) /\ UNCHANGED exceptServer
  \/ (\E error \in UpstreamErrors : FinalMessageRejects(error)) /\ UNCHANGED exceptServer
  \/ Cancel /\ UNCHANGED exceptServer

Spec == Init /\ [][Next]_allVars

\* one page session of the browser client
ClientNext ==
  \/ (\E value \in InputValues : Submit(value)) /\ UNCHANGED exceptClient
  \/ (\E i \in DOMAIN invs : \E thrown \in NetworkErrors : FetchRejects(i, thrown))
       /\ UNCHANGED exceptClient
  \/ (\E i \in DOMAIN invs : \E status \in ErrorStatuses : FetchNotOk(i, status))
       /\ UNCHANGED exceptClient
  \/ (\E i \in DOMAIN invs : \E errorText \in ErrorTexts : ErrorTextResolves(i, errorText))
       /\ UNCHANGED exceptClient
  \/ (\E i \in DOMAIN invs : \E thrown \in NetworkErrors : ErrorTextRejects(i, thrown))
       /\ UNCHANGED exceptClient
  \/ (\E i \in DOMAIN invs : FetchNoBody(i)) /\ UNCHANGED exceptClient
  \/ (\E i \in DOMAIN invs :
        /\ invs[i].pc = "fetch"
        /\ \E text \in StreamTexts(MaxFrames - framesUsed) : FetchOk(i, text))
       /\ UNCHANGED exceptClient
  \/ (\E i \in DOMAIN invs : \E n \in 1..Len(invs[i].body) : ReadChunk(i, n))
       /\ UNCHANGED exceptClient
  \/ (\E i \in DOMAIN invs : ReadDone(i)) /\ UNCHANGED exceptClient
  \/ (\E i \in DOMAIN invs : \E thrown \in ReadErrors : ReadRejects(i, thrown))
       /\ UNCHANGED exceptClient

SpecClient == Init /\ [][ClientNext]_allVars

\* a step of a running invocation: its fetch, response.text() or read settles
InvocationStep ==
  \E i \in DOMAIN invs :
    \/ \E thrown \in NetworkErrors : FetchRejects(i, thrown)
    \/ \E errorText \in ErrorTexts : ErrorTextResolves(i, errorText)
    \/ \E thrown \in NetworkErrors : ErrorTextRejects(i, thrown)
    \/ \E thrown \in ReadErrors : ReadRejects(i, thrown)
    \/ \E status \in ErrorStatuses : FetchNotOk(i, status)
    \/ FetchNoBody(i)
    \/ ReadDone(i)
    \/ invs[i].pc = "fetch"
         /\ \E text \in StreamTexts(MaxFrames - framesUsed) : FetchOk(i, text)
    \/ \E n \in 1..Len(invs[i].body) : ReadChunk(i, n)
\* the client when every promise an invocation awaits settles in the end
SpecClientFair == SpecClient /\ WF_clientVars(InvocationStep)

PairNext ==
  \/ (\E r \in Requests :
        /\ relays[r].pc = "idle"
        /\ \E raw \in PairBodies : PairHandleChat(r, raw))
       /\ UNCHANGED exceptPair
  \/ (\E r \in Requests : PairStreamOpened(r)) /\ UNCHANGED exceptPair
  \/ (\E r \in Requests : \E error \in UpstreamErrors : PairStreamOpenFails(r, error))
       /\ UNCHANGED exceptPair
  \/ (\E r \in Requests : \E event \in PairEvents : PairUpstreamEvent(r, event))
       /\ UNCHANGED exceptPair
  \/ (\E r \in Requests : PairUpstreamEnd(r)) /\ UNCHANGED exceptPair
  \/ (\E r \in Requests : \E error \in UpstreamErrors : PairUpstreamRaise(r, error))
       /\ UNCHANGED exceptPair
  \/ (\E r \in Requests : \E usage \in Usages : PairFinalMessageResolves(r, usage))
       /\ UNCHANGED exceptPair

SpecPair == Init /\ [][PairNext]_allVars

RouteNext ==
  \/ (\E f \in PublicFiles : Publish(f)) /\ UNCHANGED exceptRoute
  \/ (\E method \in Methods : \E path \in Paths : Fetch(method, path))
       /\ UNCHANGED exceptRoute

SpecRoute == Init /\ [][RouteNext]_allVars

(* ===================== properties of the stream relay ================== *)

\* the request has been taken and its body parsed as JSON
Parsed == pc # "idle" /\ reqBody # InvalidJSON
\* ... and it passed validateRequest
Validated == Parsed /\ validateRequest(reqBody).valid
\* start() of the response body has run to its end
RelayDone == pc = "done" /\ controller.state # "none"
\* the consumer stayed attached: the body can be read to completion
Attached == ~controller.cancelled

FrameType(i) == FrameJson(controller.frames[i]).type
FramesOfType(types) == {i \in DOMAIN controller.frames : FrameType(i) \in types}
TerminalFrames == FramesOfType({"done", "error"})

\* the text of the delta frames, in emission order
RECURSIVE DeltaTexts(_)
DeltaTexts(frames) ==
  IF Len(frames) = 0 THEN <<>>
  ELSE IF FrameJson(Head(frames)).type = "delta"
    THEN <<FrameJson(Head(frames)).text>> \o DeltaTexts(Tail(frames))
  ELSE DeltaTexts(Tail(frames))

\* the text fragments of the upstream's text_delta events, in arrival order
RECURSIVE UpstreamTexts(_)
UpstreamTexts(events) ==
  IF Len(events) = 0 THEN <<>>
  ELSE IF Head(events).type = "content_block_delta"
          /\ Head(events).deltaType = "text_delta"
    THEN <<Head(events).text>> \o UpstreamTexts(Tail(events))
  ELSE UpstreamTexts(Tail(events))

CloseCalls == Cardinality({i \in DOMAIN controller.ops : controller.ops[i] = "close"})
\* some controller.enqueue call threw
EnqueueFailed ==
  Cardinality({i \in DOMAIN controller.ops : controller.ops[i] = "enqueue"})
    > Len(controller.frames)

\* C1: every completed relay run whose body is read to completion holds exactly
\* one terminal frame (done or error), and that frame is the last one.
C1_ExactlyOneTerminalFrame ==
  (RelayDone /\ Attached) =>
    /\ Cardinality(TerminalFrames) = 1
    /\ TerminalFrames = {Len(controller.frames)}

\* C2: when the upstream raises after k delta frames, the relay has at once (no
\* await in between, so no hang) enqueued one error frame carrying the error's
\* message as the last frame, after exactly those k deltas, and closed the body.
C2_ErrorAfterDeltas ==
  (raised # NoError /\ controller.state # "none" /\ Attached) =>
    /\ pc = "done"
    /\ Len(controller.frames) >= 1
    /\ FrameType(Len(controller.frames)) = "error"
    /\ raised[1] = "Error" =>
         FrameJson(controller.frames[Len(controller.frames)]).error = raised[2]
    /\ raised[1] # "Error" =>
         FrameJson(controller.frames[Len(controller.frames)]).error = "Unknown error"
    /\ FramesOfType({"error"}) = {Len(controller.frames)}
    /\ DeltaTexts(controller.frames) = UpstreamTexts(delivered)
    /\ controller.state = "closed"
    /\ controller.ops[Len(controller.ops)] = "close"

C2_Witness ==
  /\ raised # NoError /\ Attached /\ pc = "done"
  /\ DeltaTexts(controller.frames) = <<"a", "b">>
  /\ Len(controller.frames) = 3
  /\ FrameType(3) = "error"

\* C3: in a run that ends with a done frame on a body read to completion, the
\* delta frames are one per upstream text_delta event, in arrival order, so the
\* concatenation of their texts is the concatenation of the upstream fragments.
C3_DeltasReproduceReply ==
  (/\ RelayDone /\ Attached
   /\ Len(controller.frames) >= 1
   /\ FrameType(Len(controller.frames)) = "done") =>
    /\ DeltaTexts(controller.frames) = UpstreamTexts(delivered)
    /\ Concat(DeltaTexts(controller.frames)) = Concat(UpstreamTexts(delivered))

C3_Witness ==
  /\ RelayDone /\ Attached
  /\ delivered = <<TextDelta("b"), TextDelta("a"), MessageStop>>
  /\ Len(controller.frames) = 3
  /\ FrameType(3) = "done"
  /\ Concat(DeltaTexts(controller.frames)) = "ba"

\* C4: on every exit path of start() (normal end, upstream error, exception of
\* an enqueue) controller.close() has been called exactly once, it is the last
\* call made on the controller, and the stream is closed.
C4_ClosedExactlyOnce ==
  RelayDone =>
    /\ CloseCalls = 1
    /\ controller.ops[Len(controller.ops)] = "close"
    /\ controller.state = "closed"

\* the internal-exception path: an enqueue threw inside the try block
C4_Witness ==
  /\ RelayDone /\ EnqueueFailed /\ raised = NoError
  /\ CloseCalls = 1

\* C5: a validated request is answered 200 text/event-stream and its body, read
\* to completion, holds at least one frame whose JSON has a type field.
C5_StreamsAtLeastOneFrame ==
  (Validated /\ pc = "done" /\ Attached) =>
    /\ response.kind = "response"
    /\ response.status = 200
    /\ response.contentType = "text/event-stream"
    /\ \E i \in DOMAIN controller.frames :
         /\ controller.frames[i][1] = "data: "
         /\ "type" \in DOMAIN FrameJson(controller.frames[i])

\* C6: every upstream failure of a validated request shows as an error frame on
\* a 200 response, never as a failed handler or an HTTP error status.
C6_FailureIsInBand ==
  (Validated /\ raised # NoError /\ pc = "done" /\ Attached) =>
    /\ response.kind = "response"
    /\ response.status = 200
    /\ FramesOfType({"error"}) # {}

\* C7: a request makes at most one upstream call: exactly one when its body is
\* JSON that passes validateRequest, none (and a 400) otherwise; a failure of
\* the upstream is not followed by another call.
C7_AtMostOneUpstreamCall ==
  /\ upstreamCalls <= 1
  /\ pc # "idle" =>
       /\ Validated => upstreamCalls = 1
       /\ ~Validated => upstreamCalls = 0 /\ response.status = 400

C7_Witness ==
  /\ Validated /\ raised # NoError /\ pc = "done"
  /\ controller.state = "closed"
  /\ upstreamCalls = 1

(* ===================== properties of validateRequest =================== *)

\* the constraints of a chat request, each stated on its own
IsObject(v) == Tag(v) \in {"obj", "arr"}
ModelSupported(body) == \E i \in DOMAIN MODELS : Get(body, "model") = JStr(MODELS[i])
SystemOk(body) == Get(body, "system") = Undefined \/ Tag(Get(body, "system")) = "str"
MessagesIsArray(body) == Tag(Get(body, "messages")) = "arr"
MessageIsObject(msg) == Tag(msg) \in {"obj", "arr"}
MessageRoleOk(msg) == Get(msg, "role") \in {JStr("user"), JStr("assistant")}
MessageContentOk(msg) == Tag(Get(msg, "content")) = "str"

WellFormed(body) ==
  /\ Tag(body) = "obj"
  /\ ModelSupported(body)
  /\ SystemOk(body)
  /\ MessagesIsArray(body)
  /\ \A i \in DOMAIN Get(body, "messages")[2] :
       LET msg == Get(body, "messages")[2][i]
       IN Tag(msg) = "obj" /\ MessageRoleOk(msg) /\ MessageContentOk(msg)

\* C8, as claimed: every parsed body that lacks a supported model is answered
\* with the model error, and no upstream call is made.
C8_AnyBodyGetsModelError ==
  (Parsed /\ ~ModelSupported(reqBody)) =>
    /\ response = BadRequest(ErrModel)
    /\ upstreamCalls = 0

\* C8, amended: a body that is an object (or an array) and lacks a supported
\* model is answered with the model error; a body that is not an object is
\* answered with "Invalid request body"; neither makes an upstream call.
C8_ObjectBodyGetsModelError ==
  (Parsed /\ ~ModelSupported(reqBody)) =>
    /\ IsObject(reqBody) => response = BadRequest(ErrModel)
    /\ ~IsObject(reqBody) => response = BadRequest(ErrBody)
    /\ response.status = 400
    /\ pc = "done"
    /\ upstreamCalls = 0

C8_Witness ==
  /\ Parsed
  /\ IsObject(reqBody)
  /\ Get(reqBody, "model") = JStr("gpt-4")
  /\ SystemOk(reqBody) /\ MessagesIsArray(reqBody)
  /\ response = BadRequest(ErrModel)
  /\ upstreamCalls = 0

\* C9: validateRequest succeeds exactly for the bodies that meet every
\* constraint; a body whose messages is not an array is rejected; on success
\* the request keeps model and messages and has system "" when it was absent.
C9_ValidIffWellFormed ==
  Parsed =>
    /\ WellFormed(reqBody) <=> response.status # 400
    /\ ~MessagesIsArray(reqBody) => response.status = 400 /\ upstreamCalls = 0
    /\ WellFormed(reqBody) =>
         /\ JStr(request.model) = Get(reqBody, "model")
         /\ request.messages = Get(reqBody, "messages")[2]
         /\ Get(reqBody, "system") = Undefined => request.system = ""
         /\ Get(reqBody, "system") # Undefined =>
              JStr(request.system) = Get(reqBody, "system")

C9_Witness ==
  /\ Parsed
  /\ WellFormed(reqBody)
  /\ Get(reqBody, "system") = Undefined
  /\ Len(Get(reqBody, "messages")[2]) = 2
  /\ request.system = ""
  /\ request.messages = Get(reqBody, "messages")[2]

\* the constraints in the order claimed, each with the error that names it
MessageConstraints(msg) ==
  << <<MessageIsObject(msg), ErrMsgObject>>,
     <<MessageRoleOk(msg), ErrMsgRole>>,
     <<MessageContentOk(msg), ErrMsgContent>> >>

RECURSIVE AllMessageConstraints(_)
AllMessageConstraints(msgs) ==
  IF Len(msgs) = 0 THEN <<>>
  ELSE MessageConstraints(Head(msgs)) \o AllMessageConstraints(Tail(msgs))

Constraints(body) ==
  << <<IsObject(body), ErrBody>>,
     <<ModelSupported(body), ErrModel>>,
     <<SystemOk(body), ErrSystem>>,
     <<MessagesIsArray(body), ErrMessages>> >>
  \o (IF MessagesIsArray(body)
        THEN AllMessageConstraints(Get(body, "messages")[2]) ELSE <<>>)

Violated(body) == {i \in DOMAIN Constraints(body) : ~Constraints(body)[i][1]}
FirstViolated(body) ==
  CHOOSE i \in Violated(body) : \A j \in Violated(body) : i <= j

\* C10: the error of a rejected body is that of the first violated constraint
\* in the order body shape, model, system, messages-is-array, then each message
\* in index order (object, role, content); nothing is said of later violations.
C10_FirstViolationReported ==
  Parsed =>
    /\ Violated(reqBody) = {} => response.status # 400
    /\ Violated(reqBody) # {} =>
         response = BadRequest(Constraints(reqBody)[FirstViolated(reqBody)][2])

\* a body with several violations: the second message is no object, the first
\* one has a bad role and a bad content
C10_Witness ==
  /\ Parsed
  /\ Cardinality(Violated(reqBody)) >= 4
  /\ MessagesIsArray(reqBody)
  /\ Len(Get(reqBody, "messages")[2]) = 2
  /\ ~MessageIsObject(Get(reqBody, "messages")[2][2])
  /\ response = BadRequest(ErrMsgRole)

(* -------------------- properties of the browser client ------------------- *)

\* the part of the response text that the reads have delivered so far
Consumed(inv) == SubSeq(inv.text, 1, Len(inv.text) - Len(inv.body))
\* the invocation has entered the read loop and no read has rejected
InReadLoop(inv) ==
  inv.status = 200 /\ inv.pc \in {"read", "done"} /\ inv.thrown \notin ReadErrors
\* the same text delivered by a single read
OneRead(text) == ProcessChunk(<<>>, "", <<>>, text)

\* the pieces of a text between line feeds; the last one has no line feed
CompleteLines(text) == SubSeq(Split(text), 1, Len(Split(text)) - 1)
TrailingLine(text) == Split(text)[Len(Split(text))]
\* a line that carries an event: "data: " and a payload that parses
IsEvent(line) == StartsWithData(line) /\ JSONparse(Slice6(line)).ok
EventOf(line) == Dispatched(JSONparse(Slice6(line)))
IsEventOfType(line, type) == IsEvent(line) /\ EventOf(line).type = type
HasErrorEvent(text) ==
  \E k \in DOMAIN Split(text) : IsEventOfType(Split(text)[k], "error")
\* the texts of the delta events of a sequence of lines, in order
RECURSIVE DeltaTextOf(_)
DeltaTextOf(lines) ==
  IF Len(lines) = 0 THEN ""
  ELSE (IF IsEventOfType(Head(lines), "delta") THEN EventOf(Head(lines)).text ELSE "")
       \o DeltaTextOf(Tail(lines))

UserMessage(text) == [role |-> "user", content |-> text]
AssistantMessage(text) == [role |-> "assistant", content |-> text]

\* C11: however the reads cut the response text, the events dispatched, the
\* reply text, the partial line kept and the exception raised are those of the
\* same text delivered by one read.
C11_SplitInsensitive ==
  \A i \in DOMAIN invs :
    LET inv == invs[i]
        one == OneRead(Consumed(inv))
        rest == ProcessRemaining(one.buffer, one.fullContent, one.events)
    IN InReadLoop(inv) =>
         /\ inv.result # "saved" =>
              /\ inv.events = one.events
              /\ inv.fullContent = one.fullContent
              /\ inv.thrown = one.thrown
              /\ inv.pc = "read" => inv.buffer = one.buffer
         /\ inv.result = "saved" =>
              /\ ~one.thrown.threw
              /\ inv.events = rest.events
              /\ inv.fullContent = rest.fullContent

\* a read has ended inside the text of a delta line: "hel" is in the buffer, no
\* event is dispatched yet, and the next read starts with "lo"
C11_Witness ==
  \E i \in DOMAIN invs :
    /\ invs[i].pc = "read"
    /\ invs[i].text = FrameText(LDeltaHello)
    /\ invs[i].buffer = <<DataPrefix, DeltaOpen, "hel">>
    /\ invs[i].body = <<"lo", StrClose, NL, NL>>
    /\ invs[i].events = <<>>

\* C12: an error event that is dispatched is the last thing the invocation
\* processes: the invocation has failed and its element shows Error: <message>.
C12_ErrorEventEndsTurn ==
  \A i \in DOMAIN invs :
    \A k \in DOMAIN invs[i].events :
      invs[i].events[k].type = "error" =>
        /\ k = Len(invs[i].events)
        /\ invs[i].result = "failed"
        /\ invs[i].rendered = formatContent("Error: " \o invs[i].events[k].text)

\* C13: an invocation that ended after a response that was not ok, without a
\* body, after a rejected read or with an error event in its text has left no
\* assistant entry in the transcript.
C13_FailureLeavesNoAssistantEntry ==
  \A i \in DOMAIN invs :
    (/\ invs[i].pc = "done"
     /\ \/ invs[i].result = "failed"
        \/ HasErrorEvent(Consumed(invs[i])))
      => messages = invs[i].sent.messages

\* C14: an invocation that read a text without error event to its end has
\* appended one assistant message after the user message, the concatenation in
\* order of the texts of the delta events; the next request carries it.
C14_SavedReplyIsDeltaConcatenation ==
  /\ \A i \in DOMAIN invs :
       invs[i].result = "saved" /\ ~HasErrorEvent(invs[i].text) =>
         messages = Append(invs[i].sent.messages,
                           AssistantMessage(DeltaTextOf(Split(invs[i].text))))
  /\ \A i \in DOMAIN invs :
       prev.result = "saved" /\ ~HasErrorEvent(prev.text) =>
         /\ Len(invs[i].sent.messages) = Len(prev.sent) + 2
         /\ SubSeq(invs[i].sent.messages, 1, Len(prev.sent) + 1)
              = Append(prev.sent, AssistantMessage(DeltaTextOf(Split(prev.text))))
         /\ invs[i].sent.messages[Len(prev.sent) + 2].role = "user"

\* the request after a saved turn of two deltas, one of them in the last line
C14_Witness ==
  /\ prev.result = "saved"
  /\ prev.text = FrameText(LDeltaHello) \o LDeltaLo
  /\ Len(invs) = 1
  /\ invs[1].pc = "fetch"
  /\ invs[1].sent.messages
       = <<UserMessage("hi"), AssistantMessage("hellolo"), UserMessage("hi")>>

\* C15: a data line whose payload does not parse is skipped: no invocation fails
\* on it, the reply text is that of the delta events of the lines read, the
\* transcript is untouched while the loop runs, and the turn can be saved.
C15_MalformedLineSkipped ==
  \A i \in DOMAIN invs :
    LET inv == invs[i]
    IN InReadLoop(inv) =>
         /\ inv.result = "failed" =>
              /\ Len(inv.events) > 0
              /\ inv.events[Len(inv.events)]
                   = [type |-> "error", text |-> Concat(inv.thrown.message)]
         /\ inv.pc = "read" =>
              /\ inv.fullContent = DeltaTextOf(CompleteLines(Consumed(inv)))
              /\ messages = inv.sent.messages
         /\ inv.result = "saved" =>
              inv.fullContent = DeltaTextOf(Split(inv.text))

\* a malformed data line, then a delta: the turn is saved with the delta's text
C15_Witness ==
  \E i \in DOMAIN invs :
    /\ invs[i].result = "saved"
    /\ invs[i].text = FrameText(LBad) \o FrameText(LDeltaHello)
    /\ invs[i].fullContent = "hello"
    /\ messages = Append(invs[i].sent.messages, AssistantMessage("hello"))

\* C16: a saved turn has treated an event in the last line without line feed as
\* the last event of the stream: it was no error event, and a delta is the last
\* event dispatched.
C16_TrailingEventProcessed ==
  \A i \in DOMAIN invs :
    LET inv == invs[i]
        last == TrailingLine(inv.text)
    IN inv.result = "saved" /\ IsEvent(last) =>
         /\ EventOf(last).type # "error"
         /\ EventOf(last).type = "delta" =>
              /\ Len(inv.events) > 0
              /\ inv.events[Len(inv.events)] = EventOf(last)

\* C17: at most one invocation of streamResponse is running, and a submit event
\* that finds isStreaming set sends no request and leaves the transcript and
\* the running invocation as they are.
C17_SingleInFlight ==
  [][/\ Len(RunningInvs') <= 1
     /\ (submits' # submits /\ isStreaming) =>
          /\ messages' = messages
          /\ requestsSent' = requestsSent
          /\ invs' = invs
          /\ isStreaming']_allVars

\* a submit of "hi" came while the first invocation was reading and was ignored
C17_Witness ==
  /\ lastSubmit = [text |-> "hi", streaming |-> TRUE]
  /\ submits = 2
  /\ requestsSent = 1
  /\ messages = <<UserMessage("hi")>>
  /\ Len(invs) = 1
  /\ invs[1].pc = "read"

(* ------------------ properties of the forwarded payload ------------------ *)

\* the transcript and the system prompt of the request body
BodyMessages == Get(reqBody, "messages")[2]
BodySystem ==
  IF Get(reqBody, "system") = Undefined THEN "" ELSE Get(reqBody, "system")[2]
\* the positions (from 1) of the forwarded messages whose block is marked
Marked ==
  {i \in DOMAIN upstreamParams.messages :
     upstreamParams.messages[i].content[1].cache_control = Ephemeral1h}

\* C20: the payload of a validated request holds the messages of the body in
\* order, each with its role and its content as one text block; the block of
\* the second-to-last message alone is marked with the ephemeral 1-hour
\* directive, none when there are fewer than two messages; a system prompt is
\* forwarded as one marked text block, an empty or absent one as no block.
C20_PayloadKeepsTranscriptAndMarksPrefix ==
  Validated =>
    /\ upstreamParams.model = Get(reqBody, "model")[2]
    /\ Len(upstreamParams.messages) = Len(BodyMessages)
    /\ \A i \in DOMAIN BodyMessages :
         LET m == upstreamParams.messages[i]
         IN /\ m.role = Get(BodyMessages[i], "role")[2]
            /\ Len(m.content) = 1
            /\ m.content[1].type = "text"
            /\ m.content[1].text = Get(BodyMessages[i], "content")[2]
            /\ m.content[1].cache_control \in {Ephemeral1h, NoCacheControl}
    /\ Marked = IF Len(BodyMessages) >= 2 THEN {Len(BodyMessages) - 1} ELSE {}
    /\ upstreamParams.system =
         IF BodySystem = "" THEN <<>>
         ELSE <<[type |-> "text", text |-> BodySystem, cache_control |-> Ephemeral1h]>>

\* a request with a system prompt and a transcript of assistant, user: the
\* assistant message is marked, the user message is not
C20_Witness ==
  /\ Validated
  /\ BodySystem = "sys"
  /\ Len(BodyMessages) = 2
  /\ upstreamParams.messages[1].role = "assistant"
  /\ upstreamParams.messages[2].role = "user"
  /\ Marked = {1}
  /\ upstreamParams.system[1].cache_control = Ephemeral1h

(* ---------------- properties of two concurrent requests ------------------ *)

\* what the upstream stream and the response body of a request hold
LogOf(r) == IF relays[r].stream = 0 THEN <<>> ELSE streams[relays[r].stream]
BodyOf(r) == IF relays[r].body = 0 THEN NoController ELSE bodies[relays[r].body]

\* the frames that translate what an upstream stream has produced
RECURSIVE FramesFor(_)
FramesFor(log) ==
  IF Len(log) = 0 THEN <<>>
  ELSE (IF Head(log)[1] = "event"
          THEN IF Head(log)[2].type = "content_block_delta"
                  /\ Head(log)[2].deltaType = "text_delta"
                 THEN <<Encode([type |-> "delta", text |-> Head(log)[2].text])>>
                 ELSE <<>>
        ELSE IF Head(log)[1] = "final"
          THEN <<Encode([type |-> "done", usage |-> Head(log)[2]])>>
        ELSE IF Head(log)[1] = "raise"
          THEN <<Encode([type |-> "error",
                         error |-> IF Head(log)[2][1] = "Error"
                                     THEN Head(log)[2][2] ELSE "Unknown error"])>>
        ELSE <<>>)
       \o FramesFor(Tail(log))
\* the upstream stream is over: exhausted, or it has thrown
Ended(log) == Len(log) > 0 /\ log[Len(log)][1] \in {"end", "raise"}

\* each request has its own upstream stream and its own response body, and the
\* body holds the translation of what its own upstream has produced
OwnStreams ==
  \A r \in Requests :
    /\ relays[r].stream # 0 =>
         /\ relays[r].stream \in DOMAIN streams
         /\ \A q \in Requests \ {r} : relays[q].stream # relays[r].stream
    /\ relays[r].body # 0 =>
         /\ relays[r].body \in DOMAIN bodies
         /\ \A q \in Requests \ {r} : relays[q].body # relays[r].body
         /\ BodyOf(r).frames = FramesFor(LogOf(r))
         /\ (BodyOf(r).state = "closed") = Ended(LogOf(r))
         /\ Cardinality({i \in DOMAIN BodyOf(r).ops : BodyOf(r).ops[i] = "close"})
              = IF Ended(LogOf(r)) THEN 1 ELSE 0

\* C18: in every interleaving of the steps of two chat requests, each request
\* has its own upstream stream and response body, the frames of a body are the
\* translation of its own upstream, and a step of one request (an event, a
\* failure, the end) changes nothing of the other's call, upstream or body.
C18_ConcurrentRequestsIndependent ==
  [][/\ OwnStreams'
     /\ \E r \in Requests :
          \A q \in Requests \ {r} :
            /\ relays'[q] = relays[q]
            /\ LogOf(q)' = LogOf(q)
            /\ BodyOf(q)' = BodyOf(q)]_allVars

\* request 2 opened its upstream first, request 1 got its body first; request 1
\* failed after a delta, request 2 completed after it
C18_Witness ==
  /\ relays[1].stream = 2
  /\ relays[1].body = 1
  /\ relays[2].stream = 1
  /\ relays[2].body = 2
  /\ relays[1].pc = "done"
  /\ relays[2].pc = "done"
  /\ LogOf(1) = <<<<"event", TextDelta("a")>>, <<"raise", <<"Error", "overloaded_error">>>>>>
  /\ Len(BodyOf(1).frames) = 2
  /\ FrameJson(BodyOf(1).frames[2]).type = "error"
  /\ Len(BodyOf(2).frames) = 2
  /\ FrameJson(BodyOf(2).frames[1]) = [type |-> "delta", text |-> "b"]
  /\ FrameJson(BodyOf(2).frames[2]).type = "done"
  /\ BodyOf(2).state = "closed"

(* ---------------------- properties of the dispatch ----------------------- *)

\* the file a static lookup reads, and its extension
LookedUp(path) == IF path = RootPath THEN IndexPath ELSE path
Extension(path) == LookedUp(path)[Len(LookedUp(path))]

\* C19: POST /api/chat goes to handleChat; GET /api/models answers 200 with the
\* list of the three models, in order, whatever came before; every other
\* request is a static lookup (/ is index.html): 200 with the content type of
\* the extension when the file exists, 404 when it does not.
C19_DispatchIsFixed ==
  \A i \in DOMAIN served :
    LET req == served[i].req
        res == served[i].res
    IN IF req.method = "POST" /\ req.path = ChatPath
         THEN res.route = "chat"
       ELSE IF req.method = "GET" /\ req.path = ModelsPath
         THEN /\ res.route = "models"
              /\ res.status = 200
              /\ res.body = <<"claude-opus-4-5-20250514", "claude-sonnet-4-20250514",
                              "claude-haiku-3-5-20241022">>
       ELSE /\ res.route = "static"
            /\ req.exists =>
                 /\ res.status = 200
                 /\ res.contentType =
                      (IF Extension(req.path) = ".html" THEN "text/html"
                       ELSE IF Extension(req.path) = ".css" THEN "text/css"
                       ELSE IF Extension(req.path) = ".js" THEN "application/javascript"
                       ELSE "application/octet-stream")
            /\ ~req.exists => res.status = 404

\* GET / served index.html as text/html, then GET /api/models listed the models
C19_Witness ==
  /\ Len(served) = 2
  /\ served[1].req = Req("GET", RootPath, TRUE)
  /\ served[1].res.status = 200
  /\ served[1].res.contentType = "text/html"
  /\ served[2].req.method = "GET"
  /\ served[2].req.path = ModelsPath
  /\ served[2].res.body = MODELS

(* ------------- properties of the client's flag and transcript ------------ *)

\* C21: isStreaming is true exactly while an invocation of streamResponse is
\* running, the send button is disabled exactly then, and when the promises of
\* the invocation settle it ends with the flag false and the button enabled.
C21_FlagFollowsInvocation ==
  /\ [](/\ isStreaming = (Len(RunningInvs) > 0)
        /\ sendDisabled = isStreaming)
  /\ (isStreaming ~> (~isStreaming /\ ~sendDisabled))

\* an invocation has ended on an error event and the client accepts submits
C21_Witness ==
  /\ Len(invs) = 1
  /\ invs[1].pc = "done"
  /\ invs[1].result = "failed"
  /\ invs[1].thrown = Throw(<<"boom">>)
  /\ ~isStreaming
  /\ ~sendDisabled

\* the texts of the input values without the white space around them
SubmittedTexts == {"hi"}

\* C22: no step removes or changes a message of the transcript, and a step that
\* sends a chat request sends the whole transcript, which then ends with a user
\* message that holds the trimmed, non-empty text of the submit event.
C22_TranscriptAppendOnly ==
  [][/\ Len(messages') >= Len(messages)
     /\ SubSeq(messages', 1, Len(messages)) = messages
     /\ requestsSent' # requestsSent =>
          LET sent == invs'[Len(invs')].sent.messages
          IN /\ sent = messages'
             /\ Len(sent) > 0
             /\ sent[Len(sent)].role = "user"
             /\ sent[Len(sent)].content = lastSubmit'.text
             /\ sent[Len(sent)].content \in SubmittedTexts]_allVars

\* a failed turn, then a saved one: the transcript holds both user messages and
\* the reply, and the second request carried both user messages
C22_Witness ==
  /\ prev.result = "failed"
  /\ Len(invs) = 1
  /\ invs[1].result = "saved"
  /\ invs[1].sent.messages = <<UserMessage("hi"), UserMessage("hi")>>
  /\ messages = <<UserMessage("hi"), UserMessage("hi"), AssistantMessage("hello")>>
  /\ requestsSent = 2

====
